---- MODULE Spec2Model ----
(***************************************************************************)
(* The employee payment bot: the per-user dialogue state machine of        *)
(* handlers.py, the session store of user_manager.py and the Users and     *)
(* Payments tables behind google_sheets_helper.py.                         *)
(*                                                                         *)
(* One step of the model is one chat turn, processed to completion: the    *)
(* router (handle_message) picks one handler, the handler reads and writes *)
(* the session and the two tables, and one reply is sent.  Every remote    *)
(* call of a turn may fail on its own; the failure flags of a turn are     *)
(* inputs of its action.  The header row of the two sheets (ensure_headers)*)
(* is not modelled: a failure of it is swallowed by the helper and it      *)
(* never touches a data row.                                               *)
(***************************************************************************)
EXTENDS Integers, Sequences, FiniteSets, TLC

VARIABLES
    active_users,   \* UserManager.active_users: user id -> session record
    user_data,      \* context.user_data: user id -> set of keys present
    users,          \* rows of the Users sheet below the header
    payments,       \* rows of the Payments sheet below the header
    started,        \* number of dialogues started so far
    turn,           \* the turn just processed: who, what text, which handler, which
                    \* remote calls failed, which reply
    checked         \* the user ids whose register_user call has passed the existence
                    \* check and has not appended yet

vars == <<active_users, user_data, users, payments, started, turn, checked>>

----------------------------------------------------------------------------
(* Bounds of the model *)

MaxStarts == 2         \* dialogues (signup, withdrawal, profile update) one user starts alone
MaxPairStarts == 1     \* dialogues started in a behaviour of two users
MaxUserRows == 3       \* rows of the Users sheet
MaxPaymentRows == 2    \* rows of the Payments sheet
MaxAmount == 1         \* largest balance at the start; amounts typed go one beyond

UserIds == {1, 2}      \* chat users

----------------------------------------------------------------------------
(* Python values *)

None == "<None>"

\* numbers: a float n.0, the float nan, an int n; ValueError is what float() raises
Float(n) == <<"float", n>>
Int0 == <<"int", 0>>
NaN == <<"nan", 0>>
ValueError == <<"ValueError", 0>>
IsNaN(x) == x[1] = "nan"

MaxNum == (MaxPaymentRows + 1) * (MaxAmount + 2)
NumRange == (0 - MaxNum)..MaxNum
IntText == [n \in NumRange |-> ToString(n)]
FloatText == [n \in NumRange |-> ToString(n) \o ".0"]

\* float(text)
PyFloat(text) ==
    IF text = "nan" THEN NaN
    ELSE IF \E n \in NumRange : text = IntText[n] \/ text = FloatText[n]
         THEN Float(CHOOSE n \in NumRange : text = IntText[n] \/ text = FloatText[n])
         ELSE ValueError

\* str(x) of a number
PyStr(x) ==
    CASE x[1] = "nan" -> "nan"
      [] x[1] = "int" -> IntText[x[2]]
      [] OTHER -> FloatText[x[2]]

\* a <= b and a - b on floats: a comparison with nan is False, nan - b is nan
FLe(a, b) == ~IsNaN(a) /\ ~IsNaN(b) /\ a[2] <= b[2]
FSub(a, b) == IF IsNaN(a) \/ IsNaN(b) THEN NaN ELSE Float(a[2] - b[2])
\* a > b with the operands exchanged
FGt_reversed(a, b) == ~IsNaN(a) /\ ~IsNaN(b) /\ a[2] < b[2]
\* a > b on floats
FGt(a, b) == ~IsNaN(a) /\ ~IsNaN(b) /\ a[2] > b[2]

\* text.lower(), on the texts of the model
PyLower(text) ==
    CASE text = "Yes" -> "yes"
      [] text = "YES" -> "yes"
      [] text = "No" -> "no"
      [] text = "UPI" -> "upi"
      [] text = "Bank Account" -> "bank account"
      [] OTHER -> text

\* dict[key] = value and dict.get(key, default); a dict is a function on its keys
DictSet(d, key, value) == [k \in (DOMAIN d) \cup {key} |-> IF k = key THEN value ELSE d[k]]
DictGet(d, key, default) == IF key \in DOMAIN d THEN d[key] ELSE default
EmptyDict == [k \in {} |-> None]

----------------------------------------------------------------------------
(* Record Store: google_sheets_helper.py.  A row is a sequence of 8 cells: *)
(* Username, First Name, Last Name, Preferred Payment Mode, UPI ID,        *)
(* Bank Account, IFSC Code, Balance (Python index i is cell i + 1).        *)

\* get_all_users: the rows, or [] when the remote read fails
get_all_users(rows, fail) == IF fail THEN <<>> ELSE rows

\* a lookup that finds no row
find_user_by_username_none(rows, username, fail) == 0

\* find_user_by_username: position of the first row whose cell 0 is the name, 0 for (None, None)
find_user_by_username(rows, username, fail) ==
    LET all == get_all_users(rows, fail)
        hits == {i \in 1..Len(all) : all[i][1] = username}
    IN IF hits = {} THEN 0 ELSE CHOOSE i \in hits : \A j \in hits : i <= j

\* register_user: existence check, then append
sheets_register_user(rows, new_row, rfail, wfail) ==
    IF find_user_by_username(rows, new_row[1], rfail) # 0
    THEN [success |-> FALSE, message |-> "Username already exists", rows |-> rows]
    ELSE IF wfail
         THEN [success |-> FALSE, message |-> "Error", rows |-> rows]
         ELSE [success |-> TRUE, message |-> "User registered successfully",
               rows |-> Append(rows, new_row)]

\* the two steps of register_user taken apart: the existence check ...
register_check(rows, username, rfail) == find_user_by_username(rows, username, rfail) # 0

\* the append of register_user with the existence check made once more
register_append_rechecked(rows, new_row, wfail) ==
    IF wfail \/ find_user_by_username(rows, new_row[1], FALSE) # 0
    THEN [success |-> FALSE, message |-> "Error", rows |-> rows]
    ELSE [success |-> TRUE, message |-> "User registered successfully",
          rows |-> Append(rows, new_row)]

\* ... and the append, which looks at nothing
register_append(rows, new_row, wfail) ==
    IF wfail THEN [success |-> FALSE, message |-> "Error", rows |-> rows]
    ELSE [success |-> TRUE, message |-> "User registered successfully",
          rows |-> Append(rows, new_row)]

\* get_user_balance: the balance cell, "0" when the row is not found
get_user_balance(rows, username, fail) ==
    LET i == find_user_by_username(rows, username, fail)
    IN IF i # 0 /\ Len(rows[i]) >= 8 THEN rows[i][8] ELSE "0"

\* update_user_balance: writes str(new_balance) into column H of the row found
update_user_balance(rows, username, new_balance, rfail, wfail) ==
    LET i == find_user_by_username(rows, username, rfail)
    IN IF i = 0 THEN [success |-> FALSE, message |-> "User not found", rows |-> rows]
       ELSE IF wfail THEN [success |-> FALSE, message |-> "Error", rows |-> rows]
       ELSE [success |-> TRUE, message |-> "Balance updated successfully",
             rows |-> [rows EXCEPT ![i][8] = PyStr(new_balance)]]

\* the None that get_user_payment_info returns, and the test for it
NoneInfo == [none |-> TRUE]
IsNone(payment_info) == "none" \in DOMAIN payment_info

\* get_user_payment_info: None, or the four payment cells of the row found
get_user_payment_info(rows, username, fail) ==
    LET i == find_user_by_username(rows, username, fail)
    IN IF i = 0 THEN NoneInfo
       ELSE [preferred_mode |-> rows[i][4], upi_id |-> rows[i][5],
             bank_account |-> rows[i][6], ifsc_code |-> rows[i][7]]

\* field_map of update_user_profile: field name -> Python column index
field_map ==
    [f \in {"first_name", "last_name", "preferred_payment_mode",
            "upi_id", "bank_account", "ifsc_code"} |->
        CASE f = "first_name" -> 1
          [] f = "last_name" -> 2
          [] f = "preferred_payment_mode" -> 3
          [] f = "upi_id" -> 4
          [] f = "bank_account" -> 5
          [] OTHER -> 6]

\* update_user_profile writing the cell to the right of the field's
update_user_profile_next_cell(rows, username, field, value, rfail, wfail) ==
    LET i == find_user_by_username(rows, username, rfail)
    IN IF i = 0 THEN [success |-> FALSE, message |-> "User not found", rows |-> rows]
       ELSE IF field \notin DOMAIN field_map
       THEN [success |-> FALSE, message |-> "Invalid field", rows |-> rows]
       ELSE IF wfail THEN [success |-> FALSE, message |-> "Error", rows |-> rows]
       ELSE [success |-> TRUE, message |-> "updated successfully",
             rows |-> [rows EXCEPT ![i][field_map[field] + 2] = value]]

\* update_user_profile: writes one cell of the row found
update_user_profile(rows, username, field, value, rfail, wfail) ==
    LET i == find_user_by_username(rows, username, rfail)
    IN IF i = 0 THEN [success |-> FALSE, message |-> "User not found", rows |-> rows]
       ELSE IF field \notin DOMAIN field_map
       THEN [success |-> FALSE, message |-> "Invalid field", rows |-> rows]
       ELSE IF wfail THEN [success |-> FALSE, message |-> "Error", rows |-> rows]
       ELSE [success |-> TRUE, message |-> "updated successfully",
             rows |-> [rows EXCEPT ![i][field_map[field] + 1] = value]]

\* add_payment_request that swallows the error of a failed append
add_payment_request_error_swallowed(rows, payment_data, now, wfail) ==
    [success |-> TRUE, message |-> "Payment request added successfully",
     rows |-> IF wfail THEN rows ELSE Append(rows, payment_data \o <<now, "Pending">>)]

\* add_payment_request: stamps the request date and "Pending", then appends
add_payment_request(rows, payment_data, now, wfail) ==
    IF wfail THEN [success |-> FALSE, message |-> "Error", rows |-> rows]
    ELSE [success |-> TRUE, message |-> "Payment request added successfully",
          rows |-> Append(rows, payment_data \o <<now, "Pending">>)]

----------------------------------------------------------------------------
(* Session Store: user_manager.py *)

DefaultSession ==
    [username |-> None, logged_in |-> FALSE,
     registration_state |-> None, registration_data |-> EmptyDict,
     withdraw_state |-> None, withdraw_data |-> EmptyDict,
     update_profile_state |-> None, update_field |-> None]

\* start_session that installs the default session whether or not the id has one
start_session_reset(au, u) ==
    [v \in (DOMAIN au) \cup {u} |-> IF v = u THEN DefaultSession ELSE au[v]]

\* start_session: a default session if the id has none
start_session(au, u) ==
    IF u \in DOMAIN au THEN au
    ELSE [v \in (DOMAIN au) \cup {u} |-> IF v = u THEN DefaultSession ELSE au[v]]

\* end_session that marks the session logged out and keeps it
end_session_kept(au, u) == [au EXCEPT ![u].logged_in = FALSE, ![u].username = None]

\* end_session: the session is deleted
end_session(au, u) == [v \in (DOMAIN au) \ {u} |-> au[v]]

is_logged_in(au, u) == IF u \in DOMAIN au THEN au[u].logged_in ELSE FALSE
get_username(au, u) == IF is_logged_in(au, u) THEN au[u].username ELSE None
get_registration_state(au, u) == IF u \in DOMAIN au THEN au[u].registration_state ELSE None
get_withdraw_state(au, u) == IF u \in DOMAIN au THEN au[u].withdraw_state ELSE None
get_update_profile_state(au, u) == IF u \in DOMAIN au THEN au[u].update_profile_state ELSE None

\* the row with the identifiers of both payment modes, whichever was chosen
user_row_both_modes(data) ==
    <<DictGet(data, "username", ""), DictGet(data, "first_name", ""),
      DictGet(data, "last_name", ""), DictGet(data, "payment_mode", ""),
      DictGet(data, "upi_id", ""), DictGet(data, "bank_account", ""),
      DictGet(data, "ifsc_code", ""), "0">>

\* UserManager.register_user: the row built from the registration answers
user_row(data) ==
    LET payment_mode == DictGet(data, "payment_mode", "")
    IN <<DictGet(data, "username", ""), DictGet(data, "first_name", ""),
         DictGet(data, "last_name", ""), payment_mode>>
       \o (IF payment_mode = "UPI" THEN <<DictGet(data, "upi_id", ""), "", "">>
           ELSE IF payment_mode = "Bank Account"
           THEN <<"", DictGet(data, "bank_account", ""), DictGet(data, "ifsc_code", "")>>
           ELSE <<"", "", "">>)
       \o <<"0">>

----------------------------------------------------------------------------
(* Router: handle_message *)

\* the dispatch with the withdrawal in progress ahead of the main-menu keywords
Route_withdrawal_first(au, ud, u, text) ==
    IF text = "1. Signup" \/ text = "Signup" THEN "start_registration"
    ELSE IF text = "2. Login" \/ text = "Login" THEN "prompt_login_username"
    ELSE IF text = "Logout" THEN "logout"
    ELSE IF get_registration_state(au, u) # None THEN "handle_registration"
    ELSE IF ~is_logged_in(au, u) /\ "login_username_provided" \in ud[u] THEN "process_login"
    ELSE IF get_withdraw_state(au, u) # None THEN "handle_withdrawal"
    ELSE IF is_logged_in(au, u) /\ (text = "1. Check Balance" \/ text = "Check Balance")
         THEN "check_balance"
    ELSE IF is_logged_in(au, u) /\ (text = "2. Withdraw Funds" \/ text = "Withdraw Funds")
         THEN "start_withdrawal"
    ELSE IF is_logged_in(au, u) /\ (text = "3. Join Channel" \/ text = "Join Channel")
         THEN "join_channel"
    ELSE IF is_logged_in(au, u) /\ (text = "4. Update Profile" \/ text = "Update Profile")
         THEN "start_profile_update"
    ELSE IF is_logged_in(au, u) /\ text = "Back to Main Menu" THEN "main_menu"
    ELSE IF get_update_profile_state(au, u) # None THEN "handle_profile_update"
    ELSE "fallback"

\* the dispatch with the login in progress ahead of the registration in progress
Route_login_first(au, ud, u, text) ==
    IF text = "1. Signup" \/ text = "Signup" THEN "start_registration"
    ELSE IF text = "2. Login" \/ text = "Login" THEN "prompt_login_username"
    ELSE IF text = "Logout" THEN "logout"
    ELSE IF is_logged_in(au, u) /\ (text = "1. Check Balance" \/ text = "Check Balance")
         THEN "check_balance"
    ELSE IF is_logged_in(au, u) /\ (text = "2. Withdraw Funds" \/ text = "Withdraw Funds")
         THEN "start_withdrawal"
    ELSE IF is_logged_in(au, u) /\ (text = "3. Join Channel" \/ text = "Join Channel")
         THEN "join_channel"
    ELSE IF is_logged_in(au, u) /\ (text = "4. Update Profile" \/ text = "Update Profile")
         THEN "start_profile_update"
    ELSE IF is_logged_in(au, u) /\ text = "Back to Main Menu" THEN "main_menu"
    ELSE IF ~is_logged_in(au, u) /\ "login_username_provided" \in ud[u] THEN "process_login"
    ELSE IF get_registration_state(au, u) # None THEN "handle_registration"
    ELSE IF get_withdraw_state(au, u) # None THEN "handle_withdrawal"
    ELSE IF get_update_profile_state(au, u) # None THEN "handle_profile_update"
    ELSE "fallback"

\* the handler handle_message dispatches a text to, au being the sessions
\* after "ensure user has a session"
Route(au, ud, u, text) ==
    IF text = "1. Signup" \/ text = "Signup" THEN "start_registration"
    ELSE IF text = "2. Login" \/ text = "Login" THEN "prompt_login_username"
    ELSE IF text = "Logout" THEN "logout"
    ELSE IF is_logged_in(au, u) /\ (text = "1. Check Balance" \/ text = "Check Balance")
         THEN "check_balance"
    ELSE IF is_logged_in(au, u) /\ (text = "2. Withdraw Funds" \/ text = "Withdraw Funds")
         THEN "start_withdrawal"
    ELSE IF is_logged_in(au, u) /\ (text = "3. Join Channel" \/ text = "Join Channel")
         THEN "join_channel"
    ELSE IF is_logged_in(au, u) /\ (text = "4. Update Profile" \/ text = "Update Profile")
         THEN "start_profile_update"
    ELSE IF is_logged_in(au, u) /\ text = "Back to Main Menu" THEN "main_menu"
    ELSE IF get_registration_state(au, u) # None THEN "handle_registration"
    ELSE IF ~is_logged_in(au, u) /\ "login_username_provided" \in ud[u] THEN "process_login"
    ELSE IF get_withdraw_state(au, u) # None THEN "handle_withdrawal"
    ELSE IF get_update_profile_state(au, u) # None THEN "handle_profile_update"
    ELSE "fallback"

----------------------------------------------------------------------------
(* Dialogue Engine: the handlers of handlers.py.  A handler maps the       *)
(* sessions, the two tables and its inputs to an outcome: the new sessions *)
(* and tables and the reply.  The reply "<exception>" is a handler that    *)
(* raised: nothing is sent, and what it wrote before raising stays.        *)

Outcome(au, rows, pay, reply) == [au |-> au, users |-> rows, payments |-> pay, reply |-> reply]

\* handle_registration with a cancellation that leaves the state as it was
handle_registration_cancel_keeps_state(au, rows, pay, u, text, f) ==
    LET state == au[u].registration_state
        Answer(key, next, reply) ==
            Outcome([au EXCEPT ![u].registration_data = DictSet(@, key, text),
                               ![u].registration_state = next], rows, pay, reply)
    IN CASE state = "awaiting_username" ->
              IF find_user_by_username(rows, text, f.find) # 0
              THEN Outcome(au, rows, pay, "username_exists")
              ELSE Answer("username", "awaiting_first_name", "ask_first_name")
         [] state = "awaiting_first_name" ->
              Answer("first_name", "awaiting_last_name", "ask_last_name")
         [] state = "awaiting_last_name" ->
              Answer("last_name", "awaiting_payment_mode", "ask_payment_mode")
         [] state = "awaiting_payment_mode" ->
              IF text \notin {"UPI", "Bank Account"}
              THEN Outcome(au, rows, pay, "invalid_payment_mode")
              ELSE IF text = "UPI"
              THEN Answer("payment_mode", "awaiting_upi_id", "ask_upi_id")
              ELSE Answer("payment_mode", "awaiting_bank_account", "ask_bank_account")
         [] state = "awaiting_upi_id" ->
              Answer("upi_id", "awaiting_confirmation", "ask_confirmation")
         [] state = "awaiting_bank_account" ->
              Answer("bank_account", "awaiting_ifsc_code", "ask_ifsc_code")
         [] state = "awaiting_ifsc_code" ->
              Answer("ifsc_code", "awaiting_confirmation", "ask_confirmation")
         [] state = "awaiting_confirmation" ->
              IF PyLower(text) = "yes"
              THEN LET data == au[u].registration_data
                       res == sheets_register_user(rows, user_row(data), f.find, f.append)
                   IN IF res.success
                      THEN Outcome([au EXCEPT ![u].username = DictGet(data, "username", ""),
                                              ![u].logged_in = TRUE,
                                              ![u].registration_state = None],
                                   res.rows, pay, "registration_successful")
                      ELSE Outcome(au, rows, pay, "registration_failed")
              ELSE Outcome(au, rows, pay, "registration_cancelled")
         [] OTHER -> Outcome(au, rows, pay, "<none>")

\* handle_registration
handle_registration(au, rows, pay, u, text, f) ==
    LET state == au[u].registration_state
        Answer(key, next, reply) ==
            Outcome([au EXCEPT ![u].registration_data = DictSet(@, key, text),
                               ![u].registration_state = next], rows, pay, reply)
    IN CASE state = "awaiting_username" ->
              IF find_user_by_username(rows, text, f.find) # 0
              THEN Outcome(au, rows, pay, "username_exists")
              ELSE Answer("username", "awaiting_first_name", "ask_first_name")
         [] state = "awaiting_first_name" ->
              Answer("first_name", "awaiting_last_name", "ask_last_name")
         [] state = "awaiting_last_name" ->
              Answer("last_name", "awaiting_payment_mode", "ask_payment_mode")
         [] state = "awaiting_payment_mode" ->
              IF text \notin {"UPI", "Bank Account"}
              THEN Outcome(au, rows, pay, "invalid_payment_mode")
              ELSE IF text = "UPI"
              THEN Answer("payment_mode", "awaiting_upi_id", "ask_upi_id")
              ELSE Answer("payment_mode", "awaiting_bank_account", "ask_bank_account")
         [] state = "awaiting_upi_id" ->
              Answer("upi_id", "awaiting_confirmation", "ask_confirmation")
         [] state = "awaiting_bank_account" ->
              Answer("bank_account", "awaiting_ifsc_code", "ask_ifsc_code")
         [] state = "awaiting_ifsc_code" ->
              Answer("ifsc_code", "awaiting_confirmation", "ask_confirmation")
         [] state = "awaiting_confirmation" ->
              IF PyLower(text) = "yes"
              THEN LET data == au[u].registration_data
                       res == sheets_register_user(rows, user_row(data), f.find, f.append)
                   IN IF res.success
                      THEN Outcome([au EXCEPT ![u].username = DictGet(data, "username", ""),
                                              ![u].logged_in = TRUE,
                                              ![u].registration_state = None],
                                   res.rows, pay, "registration_successful")
                      ELSE Outcome(au, rows, pay, "registration_failed")
              ELSE Outcome([au EXCEPT ![u].registration_state = None],
                           rows, pay, "registration_cancelled")
         [] OTHER -> Outcome(au, rows, pay, "<none>")

\* process_login that logs in without looking the username up
process_login_unchecked(au, rows, pay, u, text, f) ==
    Outcome([au EXCEPT ![u].username = text, ![u].logged_in = TRUE],
            rows, pay, "login_successful")

\* process_login, with UserManager.login_user
process_login(au, rows, pay, u, text, f) ==
    IF find_user_by_username(rows, text, f.find) # 0
    THEN Outcome([au EXCEPT ![u].username = text, ![u].logged_in = TRUE],
                 rows, pay, "login_successful")
    ELSE Outcome(au, rows, pay, "login_failed")

\* process_withdrawal_request: the commit of a withdrawal
process_withdrawal_request(au, rows, pay, u, payment_mode, now, f) ==
    LET username == get_username(au, u)
        withdraw_data == au[u].withdraw_data
        amount == DictGet(withdraw_data, "amount", Int0)
        entered == IF payment_mode = "UPI"
                   THEN DictGet(withdraw_data, "upi_id", "") # ""
                   ELSE DictGet(withdraw_data, "bank_account", "") # ""
                        /\ DictGet(withdraw_data, "ifsc_code", "") # ""
        payment_info == get_user_payment_info(rows, username, f.info2)
        details == IF payment_mode = "UPI"
                   THEN IF entered THEN <<withdraw_data["upi_id"], "">>
                        ELSE <<payment_info.upi_id, "">>
                   ELSE IF entered
                        THEN <<withdraw_data["bank_account"], withdraw_data["ifsc_code"]>>
                        ELSE <<payment_info.bank_account, payment_info.ifsc_code>>
        payment_data == <<username, PyStr(amount), payment_mode>> \o details
        added == add_payment_request(pay, payment_data, now, f.append)
        current_balance == PyFloat(get_user_balance(rows, username, f.balance))
        new_balance == FSub(current_balance, amount)
        updated == update_user_balance(rows, username, new_balance, f.find, f.update)
        cleared == [au EXCEPT ![u].withdraw_state = None]
    IN IF ~entered /\ IsNone(payment_info)
       THEN Outcome(au, rows, pay, "<exception>")
       ELSE IF ~added.success
       THEN Outcome(cleared, rows, pay, "withdrawal_failed")
       ELSE IF current_balance = ValueError
       THEN Outcome(au, rows, added.rows, "<exception>")
       ELSE Outcome(cleared, updated.rows, added.rows, "payment_request_received")

\* handle_withdrawal
handle_withdrawal(au, rows, pay, u, text, now, f) ==
    LET state == au[u].withdraw_state
        username == get_username(au, u)
        Answer(key, value, next, reply) ==
            Outcome([au EXCEPT ![u].withdraw_data = DictSet(@, key, value),
                               ![u].withdraw_state = next], rows, pay, reply)
    IN CASE state = "awaiting_amount" ->
              LET amount == PyFloat(text)
                  stored == [au EXCEPT ![u].withdraw_data = DictSet(@, "amount", amount)]
                  balance == PyFloat(get_user_balance(rows, username, f.balance))
                  payment_info == get_user_payment_info(rows, username, f.info1)
              IN IF amount = ValueError THEN Outcome(au, rows, pay, "enter_valid_number")
                 ELSE IF FLe(amount, Float(0)) THEN Outcome(au, rows, pay, "enter_positive_amount")
                 ELSE IF balance = ValueError THEN Outcome(stored, rows, pay, "enter_valid_number")
                 ELSE IF FGt(amount, balance)
                 THEN Outcome([stored EXCEPT ![u].withdraw_state = None],
                              rows, pay, "insufficient_balance")
                 ELSE IF IsNone(payment_info) THEN Outcome(stored, rows, pay, "<exception>")
                 ELSE Outcome([stored EXCEPT ![u].withdraw_state =
                                                 "awaiting_payment_mode_confirmation"],
                              rows, pay, "ask_use_default_mode")
         [] state = "awaiting_payment_mode_confirmation" ->
              IF PyLower(text) = "yes"
              THEN LET payment_info == get_user_payment_info(rows, username, f.info1)
                   IN IF IsNone(payment_info) THEN Outcome(au, rows, pay, "<exception>")
                      ELSE process_withdrawal_request(au, rows, pay, u,
                                                      payment_info.preferred_mode, now, f)
              ELSE Outcome([au EXCEPT ![u].withdraw_state = "awaiting_new_payment_mode"],
                           rows, pay, "ask_new_payment_mode")
         [] state = "awaiting_new_payment_mode" ->
              IF text \notin {"UPI", "Bank Account"}
              THEN Outcome(au, rows, pay, "invalid_payment_mode")
              ELSE IF text = "UPI"
              THEN Answer("payment_mode", "UPI", "awaiting_upi_id", "ask_upi_id")
              ELSE Answer("payment_mode", "Bank Account", "awaiting_bank_account",
                          "ask_bank_account")
         [] state = "awaiting_upi_id" ->
              process_withdrawal_request(
                  [au EXCEPT ![u].withdraw_data = DictSet(@, "upi_id", text)],
                  rows, pay, u, "UPI", now, f)
         [] state = "awaiting_bank_account" ->
              Answer("bank_account", text, "awaiting_ifsc_code", "ask_ifsc_code")
         [] state = "awaiting_ifsc_code" ->
              process_withdrawal_request(
                  [au EXCEPT ![u].withdraw_data = DictSet(@, "ifsc_code", text)],
                  rows, pay, u, "Bank Account", now, f)
         [] OTHER -> Outcome(au, rows, pay, "<none>")

\* field_mapping of handle_profile_update: menu label -> field key
field_mapping ==
    [label \in {"First Name", "Last Name", "Payment Mode", "UPI ID", "Bank Account",
                "IFSC Code"} |->
        CASE label = "First Name" -> "first_name"
          [] label = "Last Name" -> "last_name"
          [] label = "Payment Mode" -> "payment_mode"
          [] label = "UPI ID" -> "upi_id"
          [] label = "Bank Account" -> "bank_account"
          [] OTHER -> "ifsc_code"]

\* the profile update with the state cleared after a successful update only
handle_profile_update_failure_keeps_state(au, rows, pay, u, text, f) ==
    LET state == au[u].update_profile_state
        username == get_username(au, u)
        res == update_user_profile(rows, username, au[u].update_field, text, f.find, f.update)
        cleared == [au EXCEPT ![u].update_profile_state = None]
    IN CASE state = "selecting_field" ->
              IF text = "Back to Main Menu"
              THEN Outcome(cleared, rows, pay,
                           IF is_logged_in(au, u) THEN "main_menu" ELSE "login_first")
              ELSE IF text \notin DOMAIN field_mapping
              THEN Outcome(au, rows, pay, "select_valid_field")
              ELSE IF field_mapping[text] = "payment_mode"
              THEN Outcome([au EXCEPT ![u].update_field = field_mapping[text],
                                      ![u].update_profile_state = "updating_payment_mode"],
                           rows, pay, "ask_new_payment_mode")
              ELSE Outcome([au EXCEPT ![u].update_field = field_mapping[text],
                                      ![u].update_profile_state = "updating_field"],
                           rows, pay, "ask_new_value")
         [] state = "updating_payment_mode" ->
              IF text \notin {"UPI", "Bank Account"}
              THEN Outcome(au, rows, pay, "invalid_payment_mode")
              ELSE Outcome(IF res.success THEN cleared ELSE au, res.rows, pay,
                           IF res.success THEN "payment_mode_updated" ELSE "update_failed")
         [] state = "updating_field" ->
              Outcome(IF res.success THEN cleared ELSE au, res.rows, pay,
                      IF res.success THEN "profile_updated" ELSE "update_failed")
         [] OTHER -> Outcome(au, rows, pay, "<none>")

\* handle_profile_update
handle_profile_update(au, rows, pay, u, text, f) ==
    LET state == au[u].update_profile_state
        username == get_username(au, u)
        res == update_user_profile(rows, username, au[u].update_field, text, f.find, f.update)
        cleared == [au EXCEPT ![u].update_profile_state = None]
    IN CASE state = "selecting_field" ->
              IF text = "Back to Main Menu"
              THEN Outcome(cleared, rows, pay,
                           IF is_logged_in(au, u) THEN "main_menu" ELSE "login_first")
              ELSE IF text \notin DOMAIN field_mapping
              THEN Outcome(au, rows, pay, "select_valid_field")
              ELSE IF field_mapping[text] = "payment_mode"
              THEN Outcome([au EXCEPT ![u].update_field = field_mapping[text],
                                      ![u].update_profile_state = "updating_payment_mode"],
                           rows, pay, "ask_new_payment_mode")
              ELSE Outcome([au EXCEPT ![u].update_field = field_mapping[text],
                                      ![u].update_profile_state = "updating_field"],
                           rows, pay, "ask_new_value")
         [] state = "updating_payment_mode" ->
              IF text \notin {"UPI", "Bank Account"}
              THEN Outcome(au, rows, pay, "invalid_payment_mode")
              ELSE Outcome(cleared, res.rows, pay,
                           IF res.success THEN "payment_mode_updated" ELSE "update_failed")
         [] state = "updating_field" ->
              Outcome(cleared, res.rows, pay,
                      IF res.success THEN "profile_updated" ELSE "update_failed")
         [] OTHER -> Outcome(au, rows, pay, "<none>")

\* check_balance
check_balance(au, rows, pay, u, f) ==
    LET username == get_username(au, u)
    IN IF username = None \/ username = ""
       THEN Outcome(au, rows, pay, "login_first")
       ELSE Outcome(au, rows, pay,
                    "Your current balance is: " \o get_user_balance(rows, username, f.balance))

\* start_withdrawal
start_withdrawal(au, rows, pay, u) ==
    LET username == get_username(au, u)
    IN IF username = None \/ username = ""
       THEN Outcome(au, rows, pay, "login_first")
       ELSE Outcome([au EXCEPT ![u].withdraw_state = "awaiting_amount"], rows, pay, "ask_amount")

\* start_profile_update
start_profile_update(au, rows, pay, u) ==
    IF ~is_logged_in(au, u)
    THEN Outcome(au, rows, pay, "login_first")
    ELSE Outcome([au EXCEPT ![u].update_profile_state = "selecting_field"],
                 rows, pay, "ask_field")

\* start_registration
start_registration(au, rows, pay, u) ==
    Outcome([au EXCEPT ![u].registration_state = "awaiting_username"], rows, pay, "ask_username")

\* main_menu and join_channel: a reply only
main_menu(au, rows, pay, u) ==
    Outcome(au, rows, pay, IF is_logged_in(au, u) THEN "main_menu" ELSE "login_first")
join_channel(au, rows, pay, u) ==
    Outcome(au, rows, pay, IF is_logged_in(au, u) THEN "channel_link" ELSE "login_first")

----------------------------------------------------------------------------
(* Inputs of a turn *)

\* which remote calls of the turn fail
NoFail == [find |-> FALSE, append |-> FALSE, info1 |-> FALSE, info2 |-> FALSE,
           balance |-> FALSE, update |-> FALSE]
Fails(calls) == {f \in [DOMAIN NoFail -> BOOLEAN] : \A c \in DOMAIN NoFail : f[c] => c \in calls}
BalanceFails == Fails({"balance"})
LoginFails == Fails({"find"})
\* the remote calls each step of a dialogue makes
RegistrationCalls ==
    [state \in {"awaiting_username", "awaiting_confirmation"} |->
        IF state = "awaiting_username" THEN {"find"} ELSE {"find", "append"}]
WithdrawalCalls ==
    [state \in {"awaiting_amount", "awaiting_payment_mode_confirmation", "awaiting_upi_id",
                "awaiting_ifsc_code"} |->
        CASE state = "awaiting_amount" -> {"balance", "info1"}
          [] state = "awaiting_payment_mode_confirmation" -> DOMAIN NoFail
          [] OTHER -> {"append", "balance", "find", "update"}]
ProfileCalls ==
    [state \in {"updating_payment_mode", "updating_field"} |-> {"find", "update"}]
RegistrationFails == [state \in DOMAIN RegistrationCalls |-> Fails(RegistrationCalls[state])]
WithdrawalFails == [state \in DOMAIN WithdrawalCalls |-> Fails(WithdrawalCalls[state])]
ProfileFails == [state \in DOMAIN ProfileCalls |-> Fails(ProfileCalls[state])]
FailsAt(table, state) == IF state \in DOMAIN table THEN table[state] ELSE {NoFail}

\* the keywords the router matches before any dialogue (rules 1 and 2), those it
\* matches for a logged-in session (rule 3), one spelling of each
WelcomeKeywords == {"Signup", "2. Login", "Logout"}
MainKeywords == {"Check Balance", "2. Withdraw Funds", "Join Channel", "4. Update Profile",
                 "Back to Main Menu"}
Amounts == {IntText[n] : n \in 0..(MaxAmount + 1)} \cup {"nan", "abc"}

\* the answers the model types at each prompt: the valid ones and an invalid one
RegistrationAnswers(state) ==
    CASE state = "awaiting_username" -> {"alice", "carol"}
      [] state = "awaiting_first_name" -> {"Carol"}
      [] state = "awaiting_last_name" -> {"Lee"}
      [] state = "awaiting_payment_mode" -> {"UPI", "Bank Account", "Cash"}
      [] state = "awaiting_upi_id" -> {"c@upi"}
      [] state = "awaiting_bank_account" -> {"ACC9"}
      [] state = "awaiting_ifsc_code" -> {"IFSC9"}
      [] state = "awaiting_confirmation" -> {"Yes", "yes", "No"}
      [] OTHER -> {}
WithdrawAnswers(state) ==
    CASE state = "awaiting_amount" -> Amounts
      [] state = "awaiting_payment_mode_confirmation" -> {"Yes", "No"}
      [] state = "awaiting_new_payment_mode" -> {"UPI", "Bank Account", "Cash"}
      [] state = "awaiting_upi_id" -> {"w@upi"}
      [] state = "awaiting_bank_account" -> {"ACC7"}
      [] state = "awaiting_ifsc_code" -> {"IFSC7"}
      [] OTHER -> {}
ProfileAnswers(state) ==
    CASE state = "selecting_field" -> (DOMAIN field_mapping) \cup {"Address"}
      [] state = "updating_payment_mode" -> {"UPI", "Bank Account", "Cash"}
      [] state = "updating_field" -> {"new"}
      [] OTHER -> {}
LoginAnswers == {"alice", "zed"}

\* the texts user u may send in the current state: a keyword of a menu, or an
\* answer to the prompt that is waiting for one (the dialogue a text that is no
\* keyword is dispatched to); with no prompt waiting, a text that answers nothing
Texts(u) ==
    LET au == start_session(active_users, u)
        waiting == Route(au, user_data, u, "hello")
    IN WelcomeKeywords
       \cup (IF au[u].logged_in \/ waiting = "fallback" THEN MainKeywords ELSE {})
       \cup CASE waiting = "handle_registration" -> RegistrationAnswers(au[u].registration_state)
               [] waiting = "process_login" -> LoginAnswers
               [] waiting = "handle_withdrawal" -> WithdrawAnswers(au[u].withdraw_state)
               [] waiting = "handle_profile_update" ->
                      ProfileAnswers(au[u].update_profile_state)
               [] OTHER -> {"hello"}

----------------------------------------------------------------------------
(* The turns *)

\* the handlers that start a dialogue
Starters == {"start_registration", "start_withdrawal", "start_profile_update"}

\* the effect of a turn: the outcome of its handler becomes the state
Turn(u, text, handler, f, out, ud) ==
    /\ started' = started + (IF handler \in Starters THEN 1 ELSE 0)
    /\ Len(out.users) <= MaxUserRows
    /\ Len(out.payments) <= MaxPaymentRows
    /\ active_users' = out.au
    /\ users' = out.users
    /\ payments' = out.payments
    /\ user_data' = ud
    /\ turn' = [user |-> u, text |-> text, handler |-> handler,
                failed |-> {c \in DOMAIN f : f[c]}, reply |-> out.reply]
    /\ checked' = checked

\* handle_message up to the dispatch: the session is ensured, the handler chosen
Ensured(u) == start_session(active_users, u)
Routed(u, text, handler) == Route(Ensured(u), user_data, u, text) = handler

\* the /start command
Start(u) ==
    /\ u \in UserIds
    /\ Turn(u, "/start", "start", NoFail, Outcome(Ensured(u), users, payments, "welcome"), user_data)

StartRegistration(u, max) ==
    /\ started < max
    /\ \E text \in Texts(u) :
          /\ Routed(u, text, "start_registration")
          /\ Turn(u, text, "start_registration", NoFail,
                  start_registration(Ensured(u), users, payments, u), user_data)

PromptLoginUsername(u) ==
    \E text \in Texts(u) :
        /\ Routed(u, text, "prompt_login_username")
        /\ Turn(u, text, "prompt_login_username", NoFail,
                Outcome(Ensured(u), users, payments, "ask_login_username"),
                [user_data EXCEPT ![u] = @ \cup {"login_username_provided"}])

Logout(u) ==
    \E text \in Texts(u) :
        /\ Routed(u, text, "logout")
        /\ Turn(u, text, "logout", NoFail,
                Outcome(end_session(Ensured(u), u), users, payments, "logged_out"), user_data)

CheckBalance(u) ==
    \E text \in Texts(u) :
        /\ Routed(u, text, "check_balance")
        /\ \E f \in BalanceFails :
              Turn(u, text, "check_balance", f, check_balance(Ensured(u), users, payments, u, f),
                   user_data)

StartWithdrawal(u, max) ==
    /\ started < max
    /\ \E text \in Texts(u) :
          /\ Routed(u, text, "start_withdrawal")
          /\ Turn(u, text, "start_withdrawal", NoFail, start_withdrawal(Ensured(u), users, payments, u),
                  user_data)

JoinChannel(u) ==
    \E text \in Texts(u) :
        /\ Routed(u, text, "join_channel")
        /\ Turn(u, text, "join_channel", NoFail, join_channel(Ensured(u), users, payments, u), user_data)

StartProfileUpdate(u, max) ==
    /\ started < max
    /\ \E text \in Texts(u) :
          /\ Routed(u, text, "start_profile_update")
          /\ Turn(u, text, "start_profile_update", NoFail,
                  start_profile_update(Ensured(u), users, payments, u), user_data)

MainMenu(u) ==
    \E text \in Texts(u) :
        /\ Routed(u, text, "main_menu")
        /\ Turn(u, text, "main_menu", NoFail, main_menu(Ensured(u), users, payments, u), user_data)

HandleRegistration(u) ==
    \E text \in Texts(u) :
        /\ Routed(u, text, "handle_registration")
        /\ \E f \in FailsAt(RegistrationFails, Ensured(u)[u].registration_state) :
              Turn(u, text, "handle_registration", f,
                   handle_registration(Ensured(u), users, payments, u, text, f), user_data)

ProcessLogin(u) ==
    \E text \in Texts(u) :
        /\ Routed(u, text, "process_login")
        /\ \E f \in LoginFails :
              Turn(u, text, "process_login", f,
                   process_login(Ensured(u), users, payments, u, text, f),
                   [user_data EXCEPT ![u] = @ \ {"login_username_provided"}])

HandleWithdrawal(u) ==
    \E text \in Texts(u) :
        /\ Routed(u, text, "handle_withdrawal")
        /\ \E f \in FailsAt(WithdrawalFails, Ensured(u)[u].withdraw_state) :
              Turn(u, text, "handle_withdrawal", f,
                   handle_withdrawal(Ensured(u), users, payments, u, text, Len(payments) + 1, f), user_data)

HandleProfileUpdate(u) ==
    \E text \in Texts(u) :
        /\ Routed(u, text, "handle_profile_update")
        /\ \E f \in FailsAt(ProfileFails, Ensured(u)[u].update_profile_state) :
              Turn(u, text, "handle_profile_update", f,
                   handle_profile_update(Ensured(u), users, payments, u, text, f), user_data)

Fallback(u) ==
    \E text \in Texts(u) :
        /\ Routed(u, text, "fallback")
        /\ Turn(u, text, "fallback", NoFail,
                Outcome(Ensured(u), users, payments, "not_understood"), user_data)

----------------------------------------------------------------------------
(* The specification *)

\* the Users sheet at the start: two employees with a credited balance
InitUsers ==
    << <<"alice", "Alice", "Ames", "UPI", "a@upi", "", "", IntText[MaxAmount]>>,
       <<"bob", "Bob", "Burns", "Bank Account", "", "ACC1", "IFSC1", "1">> >>

Init ==
    /\ active_users = [u \in {} |-> DefaultSession]
    /\ user_data = [u \in UserIds |-> {}]
    /\ users = InitUsers
    /\ payments = <<>>
    /\ started = 0
    /\ turn = [user |-> 0, text |-> "", handler |-> "<init>", failed |-> {}, reply |-> ""]
    /\ checked = {}

\* one turn of one of the users in U, who start at most max dialogues between them
Step(U, max) ==
    \E u \in U :
        \/ Start(u)
        \/ StartRegistration(u, max)
        \/ PromptLoginUsername(u)
        \/ Logout(u)
        \/ CheckBalance(u)
        \/ StartWithdrawal(u, max)
        \/ JoinChannel(u)
        \/ StartProfileUpdate(u, max)
        \/ MainMenu(u)
        \/ HandleRegistration(u)
        \/ ProcessLogin(u)
        \/ HandleWithdrawal(u)
        \/ HandleProfileUpdate(u)
        \/ Fallback(u)

\* one user, alone with the bot
Next == Step({1}, MaxStarts)
Spec == Init /\ [][Next]_vars

\* two users, their turns interleaved, each turn processed to completion
NextPair == Step(UserIds, MaxPairStarts)
SpecPair == Init /\ [][NextPair]_vars

\* the Users sheet is edited outside the bot: the row of a user who is logged
\* in is deleted, and every later read of the sheet no longer returns it
UserVanishes ==
    \E i \in 1..Len(users) :
        /\ \E u \in DOMAIN active_users :
              active_users[u].logged_in /\ active_users[u].username = users[i][1]
        /\ users' = SubSeq(users, 1, i - 1) \o SubSeq(users, i + 1, Len(users))
        /\ turn' = [user |-> 0, text |-> "", handler |-> "<sheet_edited>", failed |-> {},
                    reply |-> ""]
        /\ UNCHANGED <<active_users, user_data, payments, started, checked>>

\* one user, whose row may vanish from the sheet in the middle of the session
NextVanish == Step({1}, MaxStarts) \/ UserVanishes
SpecVanish == Init /\ [][NextVanish]_vars

\* Registration commits as concurrent writers: the remote calls of
\* register_user are steps of their own, and a commit of another user may run
\* between the existence check of one and its append.  A user whose commit is
\* between the two sends nothing.

\* a registration answer other than the yes that commits
AnswerRegistration(u) ==
    /\ u \notin checked
    /\ \E text \in Texts(u) :
          /\ Routed(u, text, "handle_registration")
          /\ ~(/\ get_registration_state(Ensured(u), u) = "awaiting_confirmation"
               /\ PyLower(text) = "yes")
          /\ Turn(u, text, "handle_registration", NoFail,
                  handle_registration(Ensured(u), users, payments, u, text, NoFail), user_data)

\* yes at awaiting_confirmation, up to the existence check of register_user
RegisterCheck(u) ==
    /\ u \notin checked
    /\ \E text \in Texts(u) :
          /\ Routed(u, text, "handle_registration")
          /\ get_registration_state(Ensured(u), u) = "awaiting_confirmation"
          /\ PyLower(text) = "yes"
          /\ IF register_check(users, user_row(Ensured(u)[u].registration_data)[1], FALSE)
             THEN Turn(u, text, "register_user", NoFail,
                       Outcome(Ensured(u), users, payments, "registration_failed"), user_data)
             ELSE /\ checked' = checked \cup {u}
                  /\ turn' = [user |-> u, text |-> text, handler |-> "register_user",
                              failed |-> {}, reply |-> "<existence_checked>"]
                  /\ UNCHANGED <<active_users, user_data, users, payments, started>>

\* the rest of the commit: the append, the auto-login, the reply
RegisterAppend(u) ==
    /\ u \in checked
    /\ \E wfail \in BOOLEAN :
          LET data == active_users[u].registration_data
              res == register_append(users, user_row(data), wfail)
          IN /\ users' = res.rows
             /\ active_users' =
                   IF res.success
                   THEN [active_users EXCEPT ![u].username = DictGet(data, "username", ""),
                                             ![u].logged_in = TRUE,
                                             ![u].registration_state = None]
                   ELSE active_users
             /\ turn' = [user |-> u, text |-> "yes", handler |-> "register_user",
                         failed |-> IF wfail THEN {"append"} ELSE {},
                         reply |-> IF res.success THEN "registration_successful"
                                   ELSE "registration_failed"]
             /\ checked' = checked \ {u}
             /\ UNCHANGED <<user_data, payments, started>>

\* two users who register, the remote calls of their commits interleaved
NextRace ==
    \E u \in UserIds :
        \/ u \notin checked /\ StartRegistration(u, MaxStarts)
        \/ AnswerRegistration(u)
        \/ RegisterCheck(u)
        \/ RegisterAppend(u)
SpecRace == Init /\ [][NextRace]_vars

----------------------------------------------------------------------------
(* Properties.  A property of a turn is an action formula: the unprimed     *)
(* variables are the state before the turn, the primed ones the state after *)
(* it, and turn' records who sent what, the handler the router chose, the   *)
(* remote calls that failed and the reply.                                  *)

\* the session of the user of the turn, before and after the turn
Before == Ensured(turn'.user)[turn'.user]
After == active_users'[turn'.user]
\* the row of the Users sheet that belongs to a username, and its stored balance
RowOf(rows, username) ==
    CHOOSE i \in 1..Len(rows) :
        rows[i][1] = username /\ \A j \in 1..(i - 1) : rows[j][1] # username
StoredBalance(rows, username) == rows[RowOf(rows, username)][8]
\* the text is a decimal number, and its value
IsDecimal(text) == \E n \in NumRange : text = IntText[n] \/ text = FloatText[n]
DecimalOf(text) == CHOOSE n \in NumRange : text = IntText[n] \/ text = FloatText[n]
\* no balance cell of an existing row is rewritten
NoBalanceWrite ==
    /\ Len(users') >= Len(users)
    /\ \A i \in 1..Len(users) : users'[i][8] = users[i][8]

\* C1, as stated: when a withdrawal turn appends to the Payments sheet for a
\* logged-in user with stored balance B and accepted amount A, it appends
\* exactly one row for that username and amount with status Pending, the
\* stored balance after the turn is exactly B - A, and the withdrawal state is
\* none.
C1_CommitDeductsExactly ==
    [][(turn'.handler = "handle_withdrawal" /\ Len(payments') > Len(payments)) =>
        LET name == Before.username
            A == After.withdraw_data["amount"]
            B == StoredBalance(users, name)
            row == payments'[Len(payments')]
        IN /\ Len(payments') = Len(payments) + 1
           /\ row[1] = name
           /\ IsDecimal(row[2]) /\ DecimalOf(row[2]) = A[2]
           /\ row[7] = "Pending"
           /\ IsDecimal(B)
           /\ IsDecimal(StoredBalance(users', name))
           /\ DecimalOf(StoredBalance(users', name)) = DecimalOf(B) - A[2]
           /\ After.withdraw_state = None]_vars

\* C2: a withdrawal turn at awaiting_amount whose amount (a positive decimal,
\* one that passed the validation of the amount) is greater than the stored
\* balance ends with the withdrawal state none and writes neither sheet; and
\* a turn of a session whose withdrawal state is none, other than
\* the one that starts a withdrawal, appends no Payments row and rewrites no
\* balance.
C2_InsufficientBalanceAborts ==
    [][/\ (/\ turn'.handler = "handle_withdrawal"
           /\ Before.withdraw_state = "awaiting_amount"
           /\ IsDecimal(turn'.text) /\ DecimalOf(turn'.text) > 0
           /\ IsDecimal(StoredBalance(users, Before.username))
           /\ DecimalOf(turn'.text) > DecimalOf(StoredBalance(users, Before.username)))
          => /\ After.withdraw_state = None
             /\ users' = users
             /\ payments' = payments
       /\ (/\ turn'.user \in UserIds
           /\ Before.withdraw_state = None
           /\ turn'.handler # "start_withdrawal")
          => /\ payments' = payments
             /\ NoBalanceWrite
             /\ (turn'.handler # "logout" => After.withdraw_state = None)]_vars
\* an amount above the stored balance was just refused
C2_Witness ==
    /\ turn.handler = "handle_withdrawal"
    /\ turn.reply = "insufficient_balance"
    /\ turn.failed = {}
    /\ IsDecimal(turn.text)
    /\ DecimalOf(turn.text) > DecimalOf(StoredBalance(users, active_users[turn.user].username))
    /\ active_users[turn.user].withdraw_state = None

\* C3, as stated: at awaiting_amount a text that is no decimal number, or one
\* whose value is <= 0, leaves the withdrawal state at awaiting_amount and
\* writes neither sheet.
C3_BadAmountReprompts ==
    [][(/\ turn'.handler = "handle_withdrawal"
        /\ Before.withdraw_state = "awaiting_amount"
        /\ (~IsDecimal(turn'.text) \/ DecimalOf(turn'.text) <= 0))
       => /\ After.withdraw_state = "awaiting_amount"
          /\ users' = users
          /\ payments' = payments]_vars

\* what a committed registration leaves: one more row, holding the answers of
\* the dialogue, the identifiers of the chosen mode only and the balance "0";
\* the session logged in under the new username, its registration state none
Registered ==
    LET d == Before.registration_data
        row == users'[Len(users')]
    IN /\ Len(users') = Len(users) + 1
       /\ SubSeq(users', 1, Len(users)) = users
       /\ row[1] = d["username"] /\ row[2] = d["first_name"] /\ row[3] = d["last_name"]
       /\ row[4] = d["payment_mode"] /\ row[4] \in {"UPI", "Bank Account"}
       /\ row[4] = "UPI" => row[5] = d["upi_id"] /\ row[6] = "" /\ row[7] = ""
       /\ row[4] = "Bank Account" =>
              row[5] = "" /\ row[6] = d["bank_account"] /\ row[7] = d["ifsc_code"]
       /\ row[8] = "0"
       /\ After.logged_in /\ After.username = d["username"]
       /\ After.registration_state = None
\* the registration turn that answers the confirmation prompt with yes
ConfirmsRegistration ==
    /\ turn'.handler = "handle_registration"
    /\ Before.registration_state = "awaiting_confirmation"
    /\ turn'.text \in {"yes", "Yes", "YES"}
\* the existence check of the insertion sees a row with the username
UsernameSeen(username) ==
    "find" \notin turn'.failed /\ \E i \in 1..Len(users) : users[i][1] = username

C5_TakenUsernameRefused ==
    [][(/\ turn'.handler = "handle_registration"
        /\ Before.registration_state = "awaiting_username"
        /\ \E i \in 1..Len(users) : users[i][1] = turn'.text)
       => /\ users' = users
          /\ After.registration_data = Before.registration_data
          /\ After.registration_state = "awaiting_username"]_vars

\* C6, as stated: no two rows of the Users sheet hold the same username.
C6_UsernamesUnique ==
    \A i, j \in 1..Len(users) : users[i][1] = users[j][1] => i = j

\* C7, as stated: every stored balance is a number and is not negative.
C7_BalancesNotNegative ==
    \A i \in 1..Len(users) : IsDecimal(users[i][8]) /\ DecimalOf(users[i][8]) >= 0

\* the cell of a Users row that holds a profile field
FieldCell ==
    [field \in {"first_name", "last_name", "payment_mode", "upi_id", "bank_account",
                "ifsc_code"} |->
        CASE field = "first_name" -> 2
          [] field = "last_name" -> 3
          [] field = "payment_mode" -> 4
          [] field = "upi_id" -> 5
          [] field = "bank_account" -> 6
          [] OTHER -> 7]

\* C8: a profile-update turn of a session logged in as u leaves the Payments
\* sheet and the number of Users rows as they were, and a cell it changes is
\* the cell of the selected field in the row of u, now holding the text sent.
C8_ProfileUpdateTouchesOneCell ==
    [][turn'.handler = "handle_profile_update" =>
        /\ payments' = payments
        /\ Len(users') = Len(users)
        /\ \A i \in 1..Len(users) : \A c \in 1..8 :
              users'[i][c] # users[i][c] =>
                  /\ i = RowOf(users, Before.username)
                  /\ Before.update_field \in DOMAIN FieldCell
                  /\ c = FieldCell[Before.update_field]
                  /\ users'[i][c] = turn'.text]_vars
\* a profile update just rewrote the UPI ID of alice, and nothing else
C8_Witness ==
    /\ turn.handler = "handle_profile_update"
    /\ turn.reply = "profile_updated"
    /\ active_users[turn.user].username = "alice"
    /\ users = [InitUsers EXCEPT ![1][5] = "new"]

\* C9, as stated: with a field selected, a valid new value sent and no remote
\* call failing, the update succeeds and the field of the user's row holds
\* the value after the turn; for each of the six fields.
C9_EveryFieldUpdates ==
    [][(/\ turn'.handler = "handle_profile_update"
        /\ \/ Before.update_profile_state = "updating_field"
           \/ /\ Before.update_profile_state = "updating_payment_mode"
              /\ turn'.text \in {"UPI", "Bank Account"}
        /\ Before.update_field \in DOMAIN FieldCell
        /\ turn'.failed = {})
       => /\ turn'.reply \in {"profile_updated", "payment_mode_updated"}
          /\ users'[RowOf(users', Before.username)][FieldCell[Before.update_field]]
                = turn'.text]_vars

\* the handlers of the main menu
MenuHandlers ==
    {"check_balance", "start_withdrawal", "join_channel", "start_profile_update", "main_menu"}
\* the handler a text that is no keyword would be dispatched to after the turn
NextFreeText == Route(active_users', user_data', turn'.user, "hello")
\* a main-menu keyword sent by a logged-in session in the middle of a withdrawal
KeywordMidWithdrawal ==
    /\ turn'.user \in UserIds
    /\ Before.logged_in
    /\ Before.withdraw_state # None
    /\ turn'.text \in MainKeywords

\* C10, as stated: a main-menu keyword sent by a logged-in session in the
\* middle of a withdrawal goes to its menu handler, the withdrawal state is
\* left as it was, and the next text that is no keyword goes to the
\* withdrawal flow.
C10_KeywordLeavesWithdrawal ==
    [][KeywordMidWithdrawal =>
        /\ turn'.handler \in MenuHandlers
        /\ After.withdraw_state = Before.withdraw_state
        /\ NextFreeText = "handle_withdrawal"]_vars

\* C10, amended: the keyword goes to its menu handler and never to the
\* withdrawal flow; every keyword but Withdraw Funds leaves the withdrawal state
\* as it was, Withdraw Funds sets it back to awaiting_amount; and the next
\* text that is no keyword goes to the withdrawal flow unless a registration
\* is in progress, which takes it.
C10_KeywordKeepsWithdrawalPending ==
    [][KeywordMidWithdrawal =>
        /\ turn'.handler \in MenuHandlers
        /\ After.withdraw_state =
              (IF turn'.handler = "start_withdrawal" THEN "awaiting_amount"
               ELSE Before.withdraw_state)
        /\ NextFreeText =
              (IF After.registration_state # None THEN "handle_registration"
               ELSE "handle_withdrawal")]_vars
\* Check Balance was just answered while the withdrawal waits for its confirmation
C10_Witness ==
    /\ turn.handler = "check_balance"
    /\ active_users[turn.user].logged_in
    /\ active_users[turn.user].withdraw_state = "awaiting_payment_mode_confirmation"
    /\ Route(active_users, user_data, turn.user, "hello") = "handle_withdrawal"

\* the answers that compare equal to "yes" when lowered
YesTexts == {"yes", "Yes", "YES"}

\* C11, as stated: a withdrawal confirmed with yes at
\* awaiting_payment_mode_confirmation appends a Payments row that carries the
\* preferred mode and the identifiers of that mode stored in the user's row
\* at that moment, whatever the withdrawal data of the session holds.
C11_YesUsesProfileDetails ==
    [][(/\ turn'.handler = "handle_withdrawal"
        /\ Before.withdraw_state = "awaiting_payment_mode_confirmation"
        /\ turn'.text \in YesTexts
        /\ Len(payments') > Len(payments))
       => LET row == payments'[Len(payments')]
              profile == users[RowOf(users, Before.username)]
          IN /\ row[1] = Before.username
             /\ row[3] = profile[4]
             /\ profile[4] = "UPI" => row[4] = profile[5] /\ row[5] = ""
             /\ profile[4] = "Bank Account" => row[4] = profile[6] /\ row[5] = profile[7]]_vars

\* C12, as stated: Back to Main Menu sent while the profile-update state is
\* selecting_field shows the main menu and leaves the profile-update state
\* none, so that the next text that is no keyword does not go to the
\* profile-update flow.
C12_BackToMainMenuLeavesUpdate ==
    [][(/\ turn'.user \in UserIds
        /\ Before.update_profile_state = "selecting_field"
        /\ turn'.text = "Back to Main Menu")
       => /\ turn'.reply = "main_menu"
          /\ After.update_profile_state = None
          /\ NextFreeText # "handle_profile_update"]_vars

\* C13, as stated: a yes at awaiting_confirmation whose insertion fails (the
\* username is seen in the sheet, or the append fails) appends no row, leaves
\* the login status as it was, replies with the failure and leaves the
\* registration state none, so that the next text that is no keyword is not
\* taken as an answer of the registration.
C13_FailedInsertEndsRegistration ==
    [][(/\ ConfirmsRegistration
        /\ \/ UsernameSeen(Before.registration_data["username"])
           \/ "append" \in turn'.failed)
       => /\ users' = users
          /\ After.logged_in = Before.logged_in
          /\ turn'.reply = "registration_failed"
          /\ After.registration_state = None
          /\ NextFreeText # "handle_registration"]_vars

\* C14: at awaiting_confirmation a text that is not yes in any letter case
\* cancels the registration: no Users row is appended, the registration state
\* becomes none, and the login status and the username of the session are as
\* they were.
C14_OtherAnswerCancels ==
    [][(/\ turn'.handler = "handle_registration"
        /\ Before.registration_state = "awaiting_confirmation"
        /\ turn'.text \notin YesTexts)
       => /\ users' = users
          /\ payments' = payments
          /\ After.registration_state = None
          /\ After.logged_in = Before.logged_in
          /\ After.username = Before.username
          /\ turn'.reply = "registration_cancelled"]_vars
\* a registration was just cancelled at its confirmation, all answers given
C14_Witness ==
    /\ turn.handler = "handle_registration"
    /\ turn.text = "No"
    /\ turn.reply = "registration_cancelled"
    /\ "ifsc_code" \in DOMAIN active_users[turn.user].registration_data
    /\ active_users[turn.user].registration_state = None
    /\ users = InitUsers

\* the withdrawal turn reaches the commit: it answers the last prompt of the
\* dialogue and the reads of the payment details do not fail
ReachesCommit ==
    /\ turn'.handler = "handle_withdrawal"
    /\ \/ /\ Before.withdraw_state = "awaiting_payment_mode_confirmation"
          /\ turn'.text \in YesTexts
       \/ Before.withdraw_state \in {"awaiting_upi_id", "awaiting_ifsc_code"}
    /\ turn'.failed \cap {"info1", "info2"} = {}

\* C15: when the append of the payment request fails in a withdrawal commit,
\* no Payments row is added, the Users sheet (the stored balance with it) is
\* as it was, the withdrawal state becomes none and the reply reports the
\* failure.
C15_FailedAppendDeductsNothing ==
    [][(ReachesCommit /\ "append" \in turn'.failed)
       => /\ payments' = payments
          /\ users' = users
          /\ After.withdraw_state = None
          /\ turn'.reply = "withdrawal_failed"]_vars
\* a commit whose append failed was just reported, the balance write would have
\* gone through
C15_Witness ==
    /\ turn.handler = "handle_withdrawal"
    /\ turn.text \in YesTexts
    /\ turn.failed = {"append"}
    /\ turn.reply = "withdrawal_failed"
    /\ payments = <<>>
    /\ users = InitUsers
    /\ active_users[turn.user].withdraw_state = None

\* what every login attempt leaves: the login-pending flag cleared, both
\* sheets as they were
LoginAttemptDone ==
    /\ "login_username_provided" \notin user_data'[turn'.user]
    /\ users' = users
    /\ payments' = payments

\* C16, as stated: the text sent after Login logs the session in under that
\* username if a Users row with exactly that username exists, and leaves it
\* logged out with no username otherwise; either way the login-pending flag
\* is cleared and no sheet is written.
C16_LoginIffRowExists ==
    [][turn'.handler = "process_login" =>
        /\ IF \E i \in 1..Len(users) : users[i][1] = turn'.text
           THEN After.logged_in /\ After.username = turn'.text
           ELSE ~After.logged_in /\ After.username = None
        /\ LoginAttemptDone]_vars

\* C16, amended: the session is logged in under the username if the read of
\* the Users sheet succeeds and a row with exactly that username exists; it
\* stays logged out with no username if no such row exists or the read
\* fails; either way the flag is cleared and no sheet is written.
C16_LoginIffRowRead ==
    [][turn'.handler = "process_login" =>
        /\ ~Before.logged_in
        /\ Before.registration_state = None
        /\ IF UsernameSeen(turn'.text)
           THEN After.logged_in /\ After.username = turn'.text
           ELSE ~After.logged_in /\ After.username = None
        /\ LoginAttemptDone]_vars
\* alice has just logged in
C16_Witness ==
    /\ turn.handler = "process_login"
    /\ turn.text = "alice"
    /\ turn.failed = {}
    /\ active_users[turn.user].logged_in
    /\ active_users[turn.user].username = "alice"
    /\ user_data[turn.user] = {}

\* C17: Logout, from any session state, is dispatched to logout and removes
\* the session of the user: the session the next turn of the user starts
\* from is logged out, has no username, every flow state none and both
\* scratch maps empty.  The sheets are not written.
C17_LogoutRemovesSession ==
    [][(turn'.user \in UserIds /\ turn'.text = "Logout") =>
        /\ turn'.handler = "logout"
        /\ turn'.user \notin DOMAIN active_users'
        /\ \A v \in (DOMAIN active_users) \ {turn'.user} :
              v \in DOMAIN active_users' /\ active_users'[v] = active_users[v]
        /\ LET next == start_session(active_users', turn'.user)[turn'.user]
           IN /\ ~next.logged_in /\ next.username = None
              /\ next.registration_state = None /\ next.withdraw_state = None
              /\ next.update_profile_state = None /\ next.update_field = None
              /\ DOMAIN next.registration_data = {} /\ DOMAIN next.withdraw_data = {}
        /\ users' = users
        /\ payments' = payments]_vars
\* a session that was logged in and had collected withdrawal data has just
\* been removed by Logout
C17_Witness ==
    /\ turn.handler = "logout"
    /\ turn.user \notin DOMAIN active_users
    /\ started > 0
    /\ payments # <<>>

\* C18: /start on an id that has a session changes no field of it, and on an
\* id that has none creates the default logged-out session; no other session
\* and no sheet is touched.
C18_StartIsIdempotent ==
    [][turn'.handler = "start" =>
        /\ IF turn'.user \in DOMAIN active_users
           THEN active_users' = active_users
           ELSE /\ DOMAIN active_users' = (DOMAIN active_users) \cup {turn'.user}
                /\ \A v \in DOMAIN active_users : active_users'[v] = active_users[v]
                /\ ~After.logged_in /\ After.username = None
                /\ After.registration_state = None /\ After.withdraw_state = None
                /\ After.update_profile_state = None /\ After.update_field = None
                /\ DOMAIN After.registration_data = {} /\ DOMAIN After.withdraw_data = {}
        /\ user_data' = user_data
        /\ users' = users
        /\ payments' = payments]_vars
\* /start was just sent by a logged-in session in the middle of a withdrawal
C18_Witness ==
    /\ turn.handler = "start"
    /\ active_users[turn.user].logged_in
    /\ active_users[turn.user].withdraw_state = "awaiting_payment_mode_confirmation"
    /\ "amount" \in DOMAIN active_users[turn.user].withdraw_data

\* C19, as stated: when the registration state or the withdrawal state of a
\* session returns to none in a turn (success, failure or cancellation), the
\* scratch map of that flow is empty after the turn.
C19_ScratchEmptyAtTermination ==
    [][(turn'.user \in UserIds /\ turn'.user \in DOMAIN active_users') =>
        /\ (Before.registration_state # None /\ After.registration_state = None)
              => DOMAIN After.registration_data = {}
        /\ (Before.withdraw_state # None /\ After.withdraw_state = None)
              => DOMAIN After.withdraw_data = {}]_vars

\* the replies that tell the user an operation failed
FailureReplies == {"registration_failed", "withdrawal_failed", "update_failed"}

\* C20, as stated: a turn in which the read of the Users sheet fails for the
\* lookup of a login, the balance of Check Balance or the existence check of
\* a registration answers with a failure reply; the failed read is not taken
\* for "no such user" or for the balance "0".
C20_FailedReadIsReported ==
    [][(\/ turn'.handler = "process_login" /\ "find" \in turn'.failed
        \/ turn'.handler = "check_balance" /\ "balance" \in turn'.failed
        \/ /\ turn'.handler = "handle_registration"
           /\ Before.registration_state = "awaiting_username" \/ ConfirmsRegistration
           /\ "find" \in turn'.failed)
       => turn'.reply \in FailureReplies]_vars

\* the turn is a step of the withdrawal or profile-update flow that looks the
\* user up in the Users sheet, of a logged-in session whose username has no
\* row there
StepWithoutRow ==
    /\ turn'.user \in UserIds
    /\ Before.logged_in
    /\ \A i \in 1..Len(users) : users[i][1] # Before.username
    /\ \/ /\ turn'.handler = "handle_withdrawal"
          /\ \/ Before.withdraw_state = "awaiting_amount"
                   /\ IsDecimal(turn'.text) /\ DecimalOf(turn'.text) > 0
             \/ Before.withdraw_state = "awaiting_payment_mode_confirmation"
                   /\ turn'.text \in YesTexts
             \/ Before.withdraw_state \in {"awaiting_upi_id", "awaiting_ifsc_code"}
       \/ /\ turn'.handler = "handle_profile_update"
          /\ \/ Before.update_profile_state = "updating_field"
             \/ Before.update_profile_state = "updating_payment_mode"
                   /\ turn'.text \in {"UPI", "Bank Account"}

\* C21, as stated: a step of the withdrawal or profile-update flow that needs
\* the row of the logged-in user and runs when that row is absent sends a message to the user,
\* resets the state of the flow to none, appends no Payments row and writes
\* no balance.
C21_VanishedUserResetsFlow ==
    [][StepWithoutRow =>
        /\ turn'.reply \notin {"<exception>", "<none>"}
        /\ turn'.handler = "handle_withdrawal" => After.withdraw_state = None
        /\ turn'.handler = "handle_profile_update" => After.update_profile_state = None
        /\ payments' = payments
        /\ NoBalanceWrite]_vars

\* C22: the append of a registration commit that has passed its existence
\* check is performed whatever the Users sheet holds by then: unless the
\* append itself fails, one row with the username is appended, the commit
\* reports success and the session is logged in.  (With C22_Witness: two
\* commits for one new username, the check of the second between the check
\* and the append of the first, both append and both report success.)
C22_AppendFollowsStaleCheck ==
    [][(/\ turn'.handler = "register_user"
        /\ turn'.user \in checked
        /\ "append" \notin turn'.failed)
       => /\ Len(users') = Len(users) + 1
          /\ SubSeq(users', 1, Len(users)) = users
          /\ users'[Len(users')][1] = active_users[turn'.user].registration_data["username"]
          /\ turn'.reply = "registration_successful"
          /\ After.logged_in
          /\ After.username = users'[Len(users')][1]]_vars
\* two rows with the username carol, appended by the commits of two users who
\* are now both logged in as carol
C22_Witness ==
    /\ Len(users) = Len(InitUsers) + 2
    /\ users[Len(users)][1] = "carol"
    /\ users[Len(users) - 1][1] = "carol"
    /\ checked = {}
    /\ \A u \in UserIds :
          u \in DOMAIN active_users /\ active_users[u].logged_in
              /\ active_users[u].username = "carol"
    /\ turn.reply = "registration_successful"

\* C23: in every session, the withdrawal state and the profile-update state
\* are never both set.
C23_OneFlowAtATime ==
    \A u \in DOMAIN active_users :
        active_users[u].withdraw_state = None \/ active_users[u].update_profile_state = None

\* every spelling of a menu keyword, and the command
KeywordTexts ==
    {"/start", "1. Signup", "Signup", "2. Login", "Login", "Logout",
     "1. Check Balance", "Check Balance", "2. Withdraw Funds", "Withdraw Funds",
     "3. Join Channel", "Join Channel", "4. Update Profile", "Update Profile",
     "Back to Main Menu"}
\* the handler the stated order gives for the session before the turn
HandlerInOrder ==
    IF Before.registration_state # None THEN "handle_registration"
    ELSE IF ~Before.logged_in /\ "login_username_provided" \in user_data[turn'.user]
         THEN "process_login"
    ELSE IF Before.withdraw_state # None THEN "handle_withdrawal"
    ELSE IF Before.update_profile_state # None THEN "handle_profile_update"
    ELSE "fallback"

\* C24: a text that is no menu keyword is handled by the one handler the
\* order gives: registration if the registration state is set, else login if
\* the session is logged out and the login-pending flag is set, else
\* withdrawal if the withdrawal state is set, else profile update if the
\* profile-update state is set, else the fallback reply, which changes
\* neither the session, the flag nor a sheet.
C24_OneHandlerInOrder ==
    [][(turn'.user \in UserIds /\ turn'.text \notin KeywordTexts)
       => /\ turn'.handler = HandlerInOrder
          /\ turn'.handler = "fallback" =>
                /\ After = Before
                /\ user_data' = user_data
                /\ users' = users
                /\ payments' = payments
                /\ turn'.reply = "not_understood"]_vars
\* a text handled by the registration although the login-pending flag is set
\* in a logged-out session
C24_Witness ==
    /\ turn.handler = "handle_registration"
    /\ turn.text \notin KeywordTexts
    /\ "login_username_provided" \in user_data[turn.user]
    /\ ~active_users[turn.user].logged_in

\* the edges of the registration state
RegistrationEdges ==
    {<<"awaiting_username", "awaiting_first_name">>,
     <<"awaiting_first_name", "awaiting_last_name">>,
     <<"awaiting_last_name", "awaiting_payment_mode">>,
     <<"awaiting_payment_mode", "awaiting_upi_id">>,
     <<"awaiting_payment_mode", "awaiting_bank_account">>,
     <<"awaiting_upi_id", "awaiting_confirmation">>,
     <<"awaiting_bank_account", "awaiting_ifsc_code">>,
     <<"awaiting_ifsc_code", "awaiting_confirmation">>,
     <<"awaiting_confirmation", None>>}
\* the text is the username of a row the turn reads
UsernameRead ==
    /\ "find" \notin turn'.failed
    /\ \E i \in 1..Len(users) : users[i][1] = turn'.text

\* C25: the registration handler changes the registration state only along
\* the edges username, first name, last name, payment mode, then UPI id on
\* "UPI" or bank account and IFSC code on "Bank Account", then confirmation,
\* then none; an existing username and an invalid payment mode leave the
\* state unchanged; a Users row is appended from awaiting_confirmation only.
C25_RegistrationEdgesOnly ==
    [][turn'.handler = "handle_registration" =>
        LET old == Before.registration_state
            new == After.registration_state
        IN /\ new = old \/ <<old, new>> \in RegistrationEdges
           /\ old = "awaiting_payment_mode" =>
                 /\ new = "awaiting_upi_id" <=> turn'.text = "UPI"
                 /\ new = "awaiting_bank_account" <=> turn'.text = "Bank Account"
                 /\ turn'.text \notin {"UPI", "Bank Account"} => new = old
           /\ (old = "awaiting_username" /\ UsernameRead) => new = old
           /\ users' # users => old = "awaiting_confirmation"]_vars
\* an existing username was refused at awaiting_username
C25_WitnessRefusedUsername ==
    /\ turn.handler = "handle_registration"
    /\ turn.text = "alice"
    /\ turn.failed = {}
    /\ active_users[turn.user].registration_state = "awaiting_username"
\* a registration went along the bank-account edges to none and appended its row
C25_Witness ==
    /\ turn.handler = "handle_registration"
    /\ turn.reply = "registration_successful"
    /\ active_users[turn.user].registration_state = None
    /\ active_users[turn.user].registration_data["payment_mode"] = "Bank Account"
    /\ Len(users) = Len(InitUsers) + 1

\* the cells of the Users sheet the turn has changed
ChangedCells ==
    {c \in (1..Len(users)) \X (1..8) : users'[c[1]][c[2]] # users[c[1]][c[2]]}
\* a terminal step of the profile update
TerminalUpdateStep ==
    /\ turn'.handler = "handle_profile_update"
    /\ \/ Before.update_profile_state = "updating_field"
       \/ /\ Before.update_profile_state = "updating_payment_mode"
          /\ turn'.text \in {"UPI", "Bank Account"}

\* C26: both terminal steps of the profile update (a valid mode at
\* updating_payment_mode, any text at updating_field) make their one update
\* call and leave the profile-update state none whether the call succeeds or
\* fails: the reply reports the result of that call, a failed call changes
\* nothing and a successful one at most one cell.  An invalid mode at
\* updating_payment_mode makes no call and leaves the state unchanged.
C26_TerminalUpdateClearsState ==
    [][/\ TerminalUpdateStep =>
            /\ After.update_profile_state = None
            /\ turn'.reply \in {"profile_updated", "payment_mode_updated", "update_failed"}
            /\ turn'.failed # {} => turn'.reply = "update_failed"
            /\ turn'.reply = "update_failed" => users' = users
            /\ Len(users') = Len(users)
            /\ Cardinality(ChangedCells) <= 1
       /\ (/\ turn'.handler = "handle_profile_update"
           /\ Before.update_profile_state = "updating_payment_mode"
           /\ turn'.text \notin {"UPI", "Bank Account"}) =>
            /\ After = Before
            /\ users' = users
            /\ turn'.reply = "invalid_payment_mode"]_vars
\* a terminal step whose update call failed has left the state none
C26_Witness ==
    /\ turn.handler = "handle_profile_update"
    /\ turn.reply = "update_failed"
    /\ "update" \in turn.failed
    /\ active_users[turn.user].update_profile_state = None
    /\ active_users[turn.user].update_field # None

\* C27: every row written to the Payments sheet has the status "Pending", an
\* amount greater than 0 and the username of the session that was logged in
\* when it was written, and no turn modifies or removes a row of the sheet.
C27_PaymentRowsWellFormed ==
    [][/\ Len(payments') >= Len(payments)
       /\ SubSeq(payments', 1, Len(payments)) = payments
       /\ \A i \in (Len(payments) + 1)..Len(payments') :
             /\ payments'[i][7] = "Pending"
             /\ IsDecimal(payments'[i][2]) /\ DecimalOf(payments'[i][2]) > 0
             /\ Before.logged_in
             /\ payments'[i][1] = Before.username]_vars

\* the sum of the amounts of the Payments rows of a username
RECURSIVE SumOfAmounts(_, _)
SumOfAmounts(pay, username) ==
    IF pay = <<>> THEN 0
    ELSE SumOfAmounts(Tail(pay), username)
            + (IF Head(pay)[1] = username THEN DecimalOf(Head(pay)[2]) ELSE 0)
\* the balance a username started with: its cell in the initial sheet, 0 for
\* a user registered since
InitialBalance(username) ==
    IF \E i \in 1..Len(InitUsers) : InitUsers[i][1] = username
    THEN DecimalOf(StoredBalance(InitUsers, username))
    ELSE 0

\* C28: at the end of every turn, failed remote calls included, the stored
\* balance of every username is its initial balance minus the sum of the
\* amounts of the Payments rows appended for it.
C28_BalanceMatchesPayments ==
    \A i \in 1..Len(users) :
        LET username == users[i][1]
            balance == StoredBalance(users, username)
        IN /\ \A j \in 1..Len(payments) :
                 payments[j][1] = username => IsDecimal(payments[j][2])
           /\ IsDecimal(balance)
           /\ DecimalOf(balance) = InitialBalance(username) - SumOfAmounts(payments, username)

\* C29: a session that is logged in as a username stays logged in as that
\* username through every turn other than "Logout".
C29_IdentityKeptUntilLogout ==
    [][(/\ turn'.user \in UserIds
        /\ turn'.user \in DOMAIN active_users
        /\ active_users[turn'.user].logged_in
        /\ turn'.text # "Logout")
       => /\ turn'.user \in DOMAIN active_users'
          /\ After.logged_in
          /\ After.username = active_users[turn'.user].username]_vars

\* C30: a text is processed as a login username only when the turn just
\* before it, of the same user, was the Login prompt; the login-pending flag
\* does not outlive a registration or a Logout in between.
C30_LoginFollowsPrompt ==
    [][turn'.handler = "process_login" =>
        /\ turn.handler = "prompt_login_username"
        /\ turn.user = turn'.user]_vars

\* the turn has logged the session in, or has changed the username it acts as
BecomesIdentity ==
    /\ turn'.user \in UserIds
    /\ turn'.user \in DOMAIN active_users'
    /\ After.logged_in
    /\ ~Before.logged_in \/ After.username # Before.username

\* C31: in every session a withdrawal state or a profile-update state that
\* is set implies the session is logged in, and a logged-in session has a
\* username, one that had a row in the Users sheet at the end of the turn in
\* which the session logged in or registered under it.  (No session exists
\* initially, so the state after every step is every state with a session.)
C31_FlowsNeedIdentity ==
    [][/\ \A u \in DOMAIN active_users' :
             /\ (\/ active_users'[u].withdraw_state # None
                 \/ active_users'[u].update_profile_state # None)
                   => active_users'[u].logged_in
             /\ active_users'[u].logged_in =>
                   active_users'[u].username \notin {None, ""}
       /\ BecomesIdentity =>
             \E i \in 1..Len(users') : users'[i][1] = After.username]_vars
\* a session that registered as carol is logged in as carol and has started
\* a withdrawal
C31_Witness ==
    /\ turn.handler = "start_withdrawal"
    /\ active_users[turn.user].withdraw_state = "awaiting_amount"
    /\ active_users[turn.user].logged_in
    /\ active_users[turn.user].username = "carol"
    /\ \E i \in 1..Len(users) : users[i][1] = "carol"

====
